---- MODULE Spec2Model ----
(***************************************************************************)
(* uer/layers/transformer.py: TransformerLayer and TransformerDecoderLayer. *)
(*                                                                         *)
(* A layer instance is built by __init__ from a configuration object and   *)
(* then serves forward calls.  forward is modelled statement by statement: *)
(* every statement that invokes a sub-module may raise, and an exception   *)
(* leaves forward at once (the source has no try/except).                  *)
(*                                                                         *)
(* A tensor value carries three readings of the same computation:          *)
(*   term  - the expression that produced it, sub-modules uninterpreted,    *)
(*           as a sequence of tokens: f ( a , b ) and ( a + b );           *)
(*   shape - its shape when the collaborators keep their interface         *)
(*           contracts (attention returns the shape of its query, the      *)
(*           others keep the shape, + broadcasts as torch does);           *)
(*   val   - its elements, row-major, when dropout is disabled and the     *)
(*           collaborators are identity stubs (attention returns its       *)
(*           query, feed-forward and layer-norm return their input).       *)
(***************************************************************************)
EXTENDS Integers, Sequences, FiniteSets, TLC

VARIABLES
    args,     \* the configuration object given to __init__
    layer,    \* the layer instance: self.* after __init__
    pc,       \* position of the forward call: "ready", a statement label, "returned", "raised"
    locals,   \* the local variables of the running forward call
    log,      \* the sub-module invocations (and additions) of the running call, in order
    exc,      \* the exception that left forward, "none" otherwise
    result,   \* what forward returned to its caller
    caller,   \* the caller's tensor objects passed to the running call
    snap,     \* the caller's tensors as they were when forward was called
    first     \* the first completed call of this instance: its inputs, its output,
              \* and whether a call with other inputs was made since

vars == <<args, layer, pc, locals, log, exc, result, caller, snap, first>>

----------------------------------------------------------------------------
(* Bounds of the model *)

BatchSize == 1
SeqLen == 2
MaxEncLen == 3
HiddenDim == 2
MaxHiddenSize == 8
MaxHeads == 3

----------------------------------------------------------------------------
(* Tensors *)

Min(a, b) == IF a < b THEN a ELSE b
Max(a, b) == IF a > b THEN a ELSE b

NoneT == [term |-> <<"None">>, shape |-> <<>>, val |-> <<>>]
Unbound == [term |-> <<"unbound">>, shape |-> <<>>, val |-> <<>>]
ErrT == [term |-> <<"error">>, shape |-> <<0, 0, 0>>, val |-> <<>>]

Numel(s) == s[1] * s[2] * s[3]

Flat(s, b, t, h) == ((b - 1) * s[2] + (t - 1)) * s[3] + h

\* element (b,t,h) of x seen through broadcasting: a dimension of size 1 repeats
At(x, b, t, h) ==
    x.val[Flat(x.shape, Min(b, x.shape[1]), Min(t, x.shape[2]), Min(h, x.shape[3]))]

Broadcastable(s1, s2) ==
    \A i \in 1..3 : s1[i] = s2[i] \/ s1[i] = 1 \/ s2[i] = 1

\* torch's x + y
TensorAdd(x, y) ==
    IF Broadcastable(x.shape, y.shape)
    THEN LET rs == [i \in 1..3 |-> Max(x.shape[i], y.shape[i])]
         IN [term |-> <<"(">> \o x.term \o <<"+">> \o y.term \o <<")">>,
             shape |-> rs,
             val |-> [k \in 1..Numel(rs) |->
                        LET h == ((k - 1) % rs[3]) + 1
                            t == (((k - 1) \div rs[3]) % rs[2]) + 1
                            b == ((k - 1) \div (rs[2] * rs[3])) + 1
                        IN At(x, b, t, h) + At(y, b, t, h)]]
    ELSE ErrT

RECURSIVE JoinTerms(_)
JoinTerms(ts) ==
    IF Len(ts) = 0 THEN <<>>
    ELSE IF Len(ts) = 1 THEN ts[1]
    ELSE ts[1] \o <<",">> \o JoinTerms(Tail(ts))

\* the expression f(a1, ..., an)
App(f, ts) == <<f, "(">> \o JoinTerms(ts) \o <<")">>

\* an invocation record: which sub-module, with which arguments, returning what
Invocation(f, xs, r) ==
    [fn |-> f, args |-> [i \in 1..Len(xs) |-> xs[i].term],
     shapes |-> [i \in 1..Len(xs) |-> xs[i].shape], res |-> r, ok |-> TRUE]

----------------------------------------------------------------------------
(* The collaborators, by their interface contracts *)

\* MultiHeadedAttention.forward(key, value, query, mask[, position_bias])
Attention(f, xs) ==
    Invocation(f, xs,
        [term |-> App(f, [i \in 1..Len(xs) |-> xs[i].term]),
         shape |-> xs[3].shape,
         val |-> xs[3].val])

\* LayerNorm, feed-forward, dropout in eval mode: shape kept
Pointwise(f, x) ==
    Invocation(f, <<x>>, [term |-> App(f, <<x.term>>), shape |-> x.shape, val |-> x.val])

\* RelativePositionEmbedding: a pairwise bias for two sequences
RelPos(a, b) ==
    Invocation("relative_pos_emb", <<a, b>>,
        [term |-> App("relative_pos_emb", <<a.term, b.term>>),
         shape |-> <<a.shape[1], 1, a.shape[2], b.shape[2]>>,
         val |-> <<>>])

\* x + y inside forward, recorded like an invocation
Plus(x, y) == Invocation("add", <<x, y>>, TensorAdd(x, y))

----------------------------------------------------------------------------
(* Construction *)

NoModule == [cls |-> "None"]

\* bool(module): a module object is truthy, None is not
Truthy(m) == m.cls # "None"

HasAttr(a, name) == name \in DOMAIN a

\* Python's // on positive integers
FloorDiv(a, b) == a \div b

AttentionHeadSize_falsy(a) ==
    IF HasAttr(a, "attention_head_size") /\ a.attention_head_size # 0
    THEN a.attention_head_size
    ELSE FloorDiv(a.hidden_size, a.heads_num)

AttentionHeadSize(a) ==
    IF HasAttr(a, "attention_head_size")
    THEN a.attention_head_size
    ELSE FloorDiv(a.hidden_size, a.heads_num)

\* bool(1 - args.remove_transformer_bias), the flag given as 0 or 1
HasBias(a) == (1 - a.remove_transformer_bias) # 0

MultiHeadedAttention(hidden_size, heads_num, attention_head_size, dropout, has_bias) ==
    [cls |-> "MultiHeadedAttention", hidden_size |-> hidden_size, heads_num |-> heads_num,
     attention_head_size |-> attention_head_size, dropout |-> dropout, has_bias |-> has_bias]

Dropout(p) == [cls |-> "Dropout", p |-> p]

LayerNorm(hidden_size, has_bias) ==
    [cls |-> "LayerNorm", hidden_size |-> hidden_size, has_bias |-> has_bias]

FeedForward(a) ==
    [cls |-> IF a.feed_forward = "gated" THEN "GatedFeedForward" ELSE "PositionwiseFeedForward",
     hidden_size |-> a.hidden_size, feedforward_size |-> a.feedforward_size,
     hidden_act |-> a.hidden_act, has_bias |-> HasBias(a)]

RelativePosEmb(a) ==
    IF a.relative_position_embedding
    THEN [cls |-> "RelativePositionEmbedding", bidirectional |-> FALSE]
    ELSE NoModule

TransformerLayer(a) ==
    [kind |-> "TransformerLayer",
     layernorm_positioning |-> a.layernorm_positioning,
     self_attn |-> MultiHeadedAttention(a.hidden_size, a.heads_num, AttentionHeadSize(a),
                                        a.dropout, HasBias(a)),
     dropout_1 |-> Dropout(a.dropout),
     layer_norm_1 |-> LayerNorm(a.hidden_size, HasBias(a)),
     context_attn |-> NoModule,
     feed_forward |-> FeedForward(a),
     dropout_2 |-> Dropout(a.dropout),
     layer_norm_2 |-> LayerNorm(a.hidden_size, HasBias(a)),
     dropout_3 |-> NoModule,
     layer_norm_3 |-> NoModule,
     relative_pos_emb |-> RelativePosEmb(a)]

TransformerDecoderLayer(a) ==
    [kind |-> "TransformerDecoderLayer",
     layernorm_positioning |-> a.layernorm_positioning,
     self_attn |-> MultiHeadedAttention(a.hidden_size, a.heads_num, AttentionHeadSize(a),
                                        a.dropout, HasBias(a)),
     dropout_1 |-> Dropout(a.dropout),
     layer_norm_1 |-> LayerNorm(a.hidden_size, HasBias(a)),
     context_attn |-> MultiHeadedAttention(a.hidden_size, a.heads_num, AttentionHeadSize(a),
                                           a.dropout, HasBias(a)),
     feed_forward |-> FeedForward(a),
     dropout_2 |-> Dropout(a.dropout),
     layer_norm_2 |-> LayerNorm(a.hidden_size, HasBias(a)),
     dropout_3 |-> Dropout(a.dropout),
     layer_norm_3 |-> LayerNorm(a.hidden_size, HasBias(a)),
     relative_pos_emb |-> RelativePosEmb(a)]

Kinds == {"TransformerLayer", "TransformerDecoderLayer"}

NewLayer(kind, a) ==
    IF kind = "TransformerLayer" THEN TransformerLayer(a) ELSE TransformerDecoderLayer(a)

Positionings == {"post", "pre", "none"}

\* configurations without the attention_head_size attribute
BaseArgs(hs, hn) ==
    [layernorm_positioning : Positionings,
     hidden_size : hs, heads_num : hn,
     remove_transformer_bias : {0, 1},
     dropout : {10},
     feed_forward : {"gated", "dense"},
     feedforward_size : {16},
     hidden_act : {"gelu"},
     relative_position_embedding : BOOLEAN]

\* the same configuration with the attribute set
WithHeadSize(a, v) ==
    [n \in DOMAIN a \cup {"attention_head_size"} |->
        IF n = "attention_head_size" THEN v ELSE a[n]]

\* configurations __init__ is exercised with
CtorArgs ==
    LET base == BaseArgs((MaxHiddenSize - 2)..MaxHiddenSize, 1..MaxHeads)
    IN base \cup {WithHeadSize(a, v) : a \in base, v \in {0, 5}}

\* configurations of the layers whose forward is exercised
FwdArgs ==
    {a \in BaseArgs({HiddenDim}, {1}) :
        a.remove_transformer_bias = 0 /\ a.feed_forward = "dense"}

----------------------------------------------------------------------------
(* forward: frames, inputs, statement execution *)

EmptyFrame ==
    [hidden |-> Unbound, mask |-> Unbound, position_bias |-> Unbound,
     inter |-> Unbound, output |-> Unbound,
     encoder_hidden |-> Unbound, mask_decoder |-> Unbound, mask_encoder |-> Unbound,
     self_position_bias |-> Unbound, context_position_bias |-> Unbound,
     query |-> Unbound, query_norm |-> Unbound, mid |-> Unbound, mid_norm |-> Unbound,
     hidden_norm |-> Unbound]

InputTensor(name, shape, base) ==
    [term |-> name, shape |-> shape, val |-> [k \in 1..Numel(shape) |-> base + k]]

Hiddens ==
    {InputTensor(<<"hidden_a">>, <<BatchSize, SeqLen, HiddenDim>>, 0),
     InputTensor(<<"hidden_b">>, <<BatchSize, SeqLen, HiddenDim>>, 10)}

EncoderHiddens ==
    {InputTensor(<<"encoder_hidden", ToString(t)>>, <<BatchSize, t, HiddenDim>>, 100) :
        t \in 1..MaxEncLen}

MaskT(name) == [term |-> <<name>>, shape |-> <<>>, val |-> <<>>]

Masks == {MaskT("mask_a"), MaskT("mask_b")}
DecoderMasks == {MaskT("mask_decoder_a"), MaskT("mask_decoder_b")}
EncoderMasks == {MaskT("mask_encoder_a"), MaskT("mask_encoder_b")}

Idle == {"ready", "returned", "raised"}

\* a statement runs its invocations in order; any of them may raise, and the
\* exception leaves forward: nothing later runs and nothing is returned
Exec(stmt, next) ==
    \E k \in 0..Len(stmt.calls) :
        /\ \A i \in 1..k : stmt.calls[i].res # ErrT
        /\ IF k = Len(stmt.calls)
           THEN /\ log' = log \o stmt.calls
                /\ locals' = stmt.frame
                /\ pc' = next
                /\ exc' = exc
           ELSE /\ stmt.calls[k + 1].fn = "add" => stmt.calls[k + 1].res = ErrT
                /\ log' = log \o SubSeq(stmt.calls, 1, k)
                              \o <<[stmt.calls[k + 1] EXCEPT !.ok = FALSE, !.res = ErrT]>>
                /\ locals' = EmptyFrame
                /\ pc' = "raised"
                /\ exc' = stmt.calls[k + 1].fn
        /\ UNCHANGED <<args, layer, result, snap, first>>

----------------------------------------------------------------------------
(* TransformerLayer.forward(hidden, mask) *)

\* the first completed call of the instance is remembered
Remember(f, inputs, out) ==
    IF f.done THEN f
    ELSE [done |-> TRUE, inputs |-> inputs, output |-> out, others |-> FALSE]

\* a call with other inputs than the remembered one is noted
Seen(f, inputs) ==
    IF f.done /\ inputs # f.inputs THEN [f EXCEPT !.others = TRUE] ELSE f

TL_forward ==
    /\ pc \in Idle
    /\ layer.kind = "TransformerLayer"
    /\ \E h \in Hiddens, m \in Masks :
          /\ caller' = <<h, m>>
          /\ snap' = <<h, m>>
          /\ locals' = [EmptyFrame EXCEPT !.hidden = h, !.mask = m]
          /\ first' = Seen(first, <<h, m>>)
    /\ pc' = "TL56"
    /\ log' = <<>>
    /\ exc' = "none"
    /\ result' = NoneT
    /\ UNCHANGED <<args, layer>>

\* lines 56-58
TL_StmtBias_always(self, f) ==
    LET c == RelPos(f.hidden, f.hidden)
    IN [calls |-> <<c>>, frame |-> [f EXCEPT !.position_bias = c.res]]

TL_StmtBias(self, f) ==
    IF Truthy(self.relative_pos_emb)
    THEN LET c == RelPos(f.hidden, f.hidden)
         IN [calls |-> <<c>>, frame |-> [f EXCEPT !.position_bias = c.res]]
    ELSE [calls |-> <<>>, frame |-> [f EXCEPT !.position_bias = NoneT]]

TL_bias ==
    /\ pc = "TL56"
    /\ Exec(TL_StmtBias(layer, locals),
            IF layer.layernorm_positioning = "post" THEN "TL61" ELSE "TL66")
    /\ UNCHANGED caller

\* line 61
TL_Stmt61(f) ==
    LET a == Attention("self_attn", <<f.hidden, f.hidden, f.hidden, f.mask, f.position_bias>>)
        d == Pointwise("dropout_1", a.res)
    IN [calls |-> <<a, d>>, frame |-> [f EXCEPT !.inter = d.res]]

TL_61 ==
    /\ pc = "TL61"
    /\ Exec(TL_Stmt61(locals), "TL62")
    /\ UNCHANGED caller

\* line 62
TL_Stmt62_noresidual(f) ==
    LET n == Pointwise("layer_norm_1", f.inter)
    IN [calls |-> <<n>>, frame |-> [f EXCEPT !.inter = n.res]]

TL_Stmt62(f) ==
    LET s == Plus(f.inter, f.hidden)
        n == Pointwise("layer_norm_1", s.res)
    IN [calls |-> <<s, n>>, frame |-> [f EXCEPT !.inter = n.res]]

TL_62 ==
    /\ pc = "TL62"
    /\ Exec(TL_Stmt62(locals), "TL63")
    /\ UNCHANGED caller

\* line 63
TL_Stmt63(f) ==
    LET g == Pointwise("feed_forward", f.inter)
        d == Pointwise("dropout_2", g.res)
    IN [calls |-> <<g, d>>, frame |-> [f EXCEPT !.output = d.res]]

\* try: ... except: output = inter
TL_63_trap ==
    /\ pc = "TL63"
    /\ LET stmt == TL_Stmt63(locals)
       IN \/ Exec(stmt, "TL64")
          \/ /\ log' = log \o <<[stmt.calls[1] EXCEPT !.ok = FALSE, !.res = ErrT]>>
             /\ locals' = [locals EXCEPT !.output = locals.inter]
             /\ pc' = "TL64"
             /\ UNCHANGED <<args, layer, exc, result, snap, first>>
    /\ UNCHANGED caller

TL_63 ==
    /\ pc = "TL63"
    /\ Exec(TL_Stmt63(locals), "TL64")
    /\ UNCHANGED caller

\* line 64
TL_Stmt64(f) ==
    LET s == Plus(f.output, f.inter)
        n == Pointwise("layer_norm_2", s.res)
    IN [calls |-> <<s, n>>, frame |-> [f EXCEPT !.output = n.res]]

TL_64 ==
    /\ pc = "TL64"
    /\ Exec(TL_Stmt64(locals), "TL71")
    /\ UNCHANGED caller

\* line 66
TL_Stmt66(f) ==
    LET n == Pointwise("layer_norm_1", f.hidden)
    IN [calls |-> <<n>>, frame |-> [f EXCEPT !.inter = n.res]]

TL_66 ==
    /\ pc = "TL66"
    /\ Exec(TL_Stmt66(locals), "TL67")
    /\ UNCHANGED caller

\* line 67
TL_Stmt67_bias(f) ==
    LET a == Attention("self_attn", <<f.inter, f.inter, f.inter, f.mask, f.position_bias>>)
        d == Pointwise("dropout_1", a.res)
    IN [calls |-> <<a, d>>, frame |-> [f EXCEPT !.inter = d.res]]

TL_Stmt67(f) ==
    LET a == Attention("self_attn", <<f.inter, f.inter, f.inter, f.mask>>)
        d == Pointwise("dropout_1", a.res)
    IN [calls |-> <<a, d>>, frame |-> [f EXCEPT !.inter = d.res]]

TL_67 ==
    /\ pc = "TL67"
    /\ Exec(TL_Stmt67(locals), "TL68")
    /\ UNCHANGED caller

\* line 68: hidden = hidden + inter binds the name to a new tensor
TL_Stmt68_noresidual(f) ==
    [calls |-> <<>>, frame |-> [f EXCEPT !.hidden = f.inter]]

TL_Stmt68(f) ==
    LET s == Plus(f.hidden, f.inter)
    IN [calls |-> <<s>>, frame |-> [f EXCEPT !.hidden = s.res]]

\* the caller's tensor objects after line 68: hidden += inter would write into
\* the caller's tensor, hidden = hidden + inter does not
TL_CallerAfter68_inplace(c, f) == [c EXCEPT ![1] = f.hidden]

TL_CallerAfter68(c, f) == c

TL_68 ==
    /\ pc = "TL68"
    /\ Exec(TL_Stmt68(locals), "TL69")
    /\ caller' = IF pc' = "raised" THEN caller ELSE TL_CallerAfter68(caller, locals')

\* line 69
TL_Stmt69(f) ==
    LET n == Pointwise("layer_norm_2", f.hidden)
    IN [calls |-> <<n>>, frame |-> [f EXCEPT !.output = n.res]]

TL_69 ==
    /\ pc = "TL69"
    /\ Exec(TL_Stmt69(locals), "TL70")
    /\ UNCHANGED caller

\* line 70
TL_Stmt70_normed(f) ==
    LET g == Pointwise("feed_forward", f.output)
        d == Pointwise("dropout_2", g.res)
        s == Plus(d.res, f.hidden)
        n == Pointwise("layer_norm_2", s.res)
    IN [calls |-> <<g, d, s, n>>, frame |-> [f EXCEPT !.output = n.res]]

TL_Stmt70(f) ==
    LET g == Pointwise("feed_forward", f.output)
        d == Pointwise("dropout_2", g.res)
        s == Plus(d.res, f.hidden)
    IN [calls |-> <<g, d, s>>, frame |-> [f EXCEPT !.output = s.res]]

TL_70 ==
    /\ pc = "TL70"
    /\ Exec(TL_Stmt70(locals), "TL71")
    /\ UNCHANGED caller


\* line 71
TL_return ==
    /\ pc = "TL71"
    /\ result' = locals.output
    /\ first' = Remember(first, snap, locals.output)
    /\ pc' = "returned"
    /\ locals' = EmptyFrame
    /\ UNCHANGED <<args, layer, log, exc, caller, snap>>

----------------------------------------------------------------------------
(* TransformerDecoderLayer.forward(hidden, encoder_hidden, mask_decoder, mask_encoder) *)

TDL_forward ==
    /\ pc \in Idle
    /\ layer.kind = "TransformerDecoderLayer"
    /\ \E h \in Hiddens, e \in EncoderHiddens, md \in DecoderMasks, me \in EncoderMasks :
          /\ caller' = <<h, e, md, me>>
          /\ snap' = <<h, e, md, me>>
          /\ locals' = [EmptyFrame EXCEPT !.hidden = h, !.encoder_hidden = e,
                                          !.mask_decoder = md, !.mask_encoder = me]
          /\ first' = Seen(first, <<h, e, md, me>>)
    /\ pc' = "TDL128"
    /\ log' = <<>>
    /\ exc' = "none"
    /\ result' = NoneT
    /\ UNCHANGED <<args, layer>>

\* lines 128-132
TDL_StmtBias(self, f) ==
    IF Truthy(self.relative_pos_emb)
    THEN LET c1 == RelPos(f.hidden, f.hidden)
             c2 == RelPos(f.hidden, f.encoder_hidden)
         IN [calls |-> <<c1, c2>>,
             frame |-> [f EXCEPT !.self_position_bias = c1.res,
                                 !.context_position_bias = c2.res]]
    ELSE [calls |-> <<>>,
          frame |-> [f EXCEPT !.self_position_bias = NoneT,
                              !.context_position_bias = NoneT]]

TDL_bias ==
    /\ pc = "TDL128"
    /\ Exec(TDL_StmtBias(layer, locals),
            IF layer.layernorm_positioning = "post" THEN "TDL136" ELSE "TDL143")
    /\ UNCHANGED caller

\* line 136
TDL_Stmt136(f) ==
    LET a == Attention("self_attn",
                 <<f.hidden, f.hidden, f.hidden, f.mask_decoder, f.self_position_bias>>)
        d == Pointwise("dropout_1", a.res)
    IN [calls |-> <<a, d>>, frame |-> [f EXCEPT !.query = d.res]]

TDL_136 ==
    /\ pc = "TDL136"
    /\ Exec(TDL_Stmt136(locals), "TDL137")
    /\ UNCHANGED caller

\* line 137
TDL_Stmt137(f) ==
    LET s == Plus(f.query, f.hidden)
        n == Pointwise("layer_norm_1", s.res)
    IN [calls |-> <<s, n>>, frame |-> [f EXCEPT !.query_norm = n.res]]

TDL_137 ==
    /\ pc = "TDL137"
    /\ Exec(TDL_Stmt137(locals), "TDL138")
    /\ UNCHANGED caller

\* line 138
TDL_Stmt138_queryfirst(f) ==
    LET a == Attention("context_attn",
                 <<f.query_norm, f.encoder_hidden, f.encoder_hidden, f.mask_encoder,
                   f.context_position_bias>>)
        d == Pointwise("dropout_2", a.res)
    IN [calls |-> <<a, d>>, frame |-> [f EXCEPT !.mid = d.res]]

TDL_Stmt138(f) ==
    LET a == Attention("context_attn",
                 <<f.encoder_hidden, f.encoder_hidden, f.query_norm, f.mask_encoder,
                   f.context_position_bias>>)
        d == Pointwise("dropout_2", a.res)
    IN [calls |-> <<a, d>>, frame |-> [f EXCEPT !.mid = d.res]]

TDL_138 ==
    /\ pc = "TDL138"
    /\ Exec(TDL_Stmt138(locals), "TDL139")
    /\ UNCHANGED caller

\* line 139
TDL_Stmt139(f) ==
    LET s == Plus(f.mid, f.query_norm)
        n == Pointwise("layer_norm_2", s.res)
    IN [calls |-> <<s, n>>, frame |-> [f EXCEPT !.mid_norm = n.res]]

TDL_139 ==
    /\ pc = "TDL139"
    /\ Exec(TDL_Stmt139(locals), "TDL140")
    /\ UNCHANGED caller

\* line 140
TDL_Stmt140(f) ==
    LET g == Pointwise("feed_forward", f.mid_norm)
        d == Pointwise("dropout_3", g.res)
    IN [calls |-> <<g, d>>, frame |-> [f EXCEPT !.output = d.res]]

TDL_140 ==
    /\ pc = "TDL140"
    /\ Exec(TDL_Stmt140(locals), "TDL141")
    /\ UNCHANGED caller

\* line 141
TDL_Stmt141(f) ==
    LET s == Plus(f.output, f.mid_norm)
        n == Pointwise("layer_norm_3", s.res)
    IN [calls |-> <<s, n>>, frame |-> [f EXCEPT !.output = n.res]]

TDL_141 ==
    /\ pc = "TDL141"
    /\ Exec(TDL_Stmt141(locals), "TDL151")
    /\ UNCHANGED caller

\* line 143
TDL_Stmt143(f) ==
    LET n == Pointwise("layer_norm_1", f.hidden)
    IN [calls |-> <<n>>, frame |-> [f EXCEPT !.hidden_norm = n.res]]

TDL_143 ==
    /\ pc = "TDL143"
    /\ Exec(TDL_Stmt143(locals), "TDL144")
    /\ UNCHANGED caller

\* line 144
TDL_Stmt144(f) ==
    LET a == Attention("self_attn",
                 <<f.hidden_norm, f.hidden_norm, f.hidden_norm, f.mask_decoder>>)
        d == Pointwise("dropout_1", a.res)
    IN [calls |-> <<a, d>>, frame |-> [f EXCEPT !.query = d.res]]

TDL_144 ==
    /\ pc = "TDL144"
    /\ Exec(TDL_Stmt144(locals), "TDL145")
    /\ UNCHANGED caller

\* line 145
TDL_Stmt145(f) ==
    LET s == Plus(f.query, f.hidden)
    IN [calls |-> <<s>>, frame |-> [f EXCEPT !.query = s.res]]

TDL_145 ==
    /\ pc = "TDL145"
    /\ Exec(TDL_Stmt145(locals), "TDL146")
    /\ UNCHANGED caller

\* line 146
TDL_Stmt146(f) ==
    LET n == Pointwise("layer_norm_2", f.query)
    IN [calls |-> <<n>>, frame |-> [f EXCEPT !.query_norm = n.res]]

TDL_146 ==
    /\ pc = "TDL146"
    /\ Exec(TDL_Stmt146(locals), "TDL147")
    /\ UNCHANGED caller

\* line 147
TDL_Stmt147_queryfirst(f) ==
    LET a == Attention("context_attn",
                 <<f.query_norm, f.encoder_hidden, f.encoder_hidden, f.mask_encoder>>)
        d == Pointwise("dropout_2", a.res)
    IN [calls |-> <<a, d>>, frame |-> [f EXCEPT !.mid = d.res]]

TDL_Stmt147(f) ==
    LET a == Attention("context_attn",
                 <<f.encoder_hidden, f.encoder_hidden, f.query_norm, f.mask_encoder>>)
        d == Pointwise("dropout_2", a.res)
    IN [calls |-> <<a, d>>, frame |-> [f EXCEPT !.mid = d.res]]

TDL_147 ==
    /\ pc = "TDL147"
    /\ Exec(TDL_Stmt147(locals), "TDL148")
    /\ UNCHANGED caller

\* line 148
TDL_Stmt148(f) ==
    LET s == Plus(f.mid, f.query)
    IN [calls |-> <<s>>, frame |-> [f EXCEPT !.mid = s.res]]

TDL_148 ==
    /\ pc = "TDL148"
    /\ Exec(TDL_Stmt148(locals), "TDL149")
    /\ UNCHANGED caller

\* line 149
TDL_Stmt149(f) ==
    LET n == Pointwise("layer_norm_3", f.mid)
    IN [calls |-> <<n>>, frame |-> [f EXCEPT !.mid_norm = n.res]]

TDL_149 ==
    /\ pc = "TDL149"
    /\ Exec(TDL_Stmt149(locals), "TDL150")
    /\ UNCHANGED caller

\* line 150
TDL_Stmt150(f) ==
    LET g == Pointwise("feed_forward", f.mid_norm)
        d == Pointwise("dropout_3", g.res)
        s == Plus(d.res, f.mid)
    IN [calls |-> <<g, d, s>>, frame |-> [f EXCEPT !.output = s.res]]

TDL_150 ==
    /\ pc = "TDL150"
    /\ Exec(TDL_Stmt150(locals), "TDL151")
    /\ UNCHANGED caller

\* line 151
TDL_return ==
    /\ pc = "TDL151"
    /\ result' = locals.output
    /\ first' = Remember(first, snap, locals.output)
    /\ pc' = "returned"
    /\ locals' = EmptyFrame
    /\ UNCHANGED <<args, layer, log, exc, caller, snap>>

(* __init__ of either class, on a configuration object *)
Construct ==
    /\ pc = "ready"
    /\ \E kind \in Kinds, a \in CtorArgs :
          /\ args' = a
          /\ layer' = NewLayer(kind, a)
    /\ UNCHANGED <<pc, locals, log, exc, result, caller, snap, first>>

----------------------------------------------------------------------------
(* Specifications *)

NoFirst == [done |-> FALSE, inputs |-> <<>>, output |-> NoneT, others |-> FALSE]

Start(kind, a) ==
    /\ args = a
    /\ layer = NewLayer(kind, a)
    /\ pc = "ready"
    /\ locals = EmptyFrame
    /\ log = <<>>
    /\ exc = "none"
    /\ result = NoneT
    /\ caller = <<>>
    /\ snap = <<>>
    /\ first = NoFirst

Init == \E kind \in Kinds, a \in FwdArgs : Start(kind, a)

Next ==
    \/ TL_forward \/ TL_bias
    \/ TL_61 \/ TL_62 \/ TL_63 \/ TL_64
    \/ TL_66 \/ TL_67 \/ TL_68 \/ TL_69 \/ TL_70
    \/ TL_return
    \/ TDL_forward \/ TDL_bias
    \/ TDL_136 \/ TDL_137 \/ TDL_138 \/ TDL_139 \/ TDL_140 \/ TDL_141
    \/ TDL_143 \/ TDL_144 \/ TDL_145 \/ TDL_146 \/ TDL_147 \/ TDL_148
    \/ TDL_149 \/ TDL_150
    \/ TDL_return

Spec == Init /\ [][Next]_vars

\* construction alone, over the wider set of configurations
InitCtor == \E kind \in Kinds, a \in CtorArgs : Start(kind, a)

NextCtor == Construct

SpecCtor == InitCtor /\ [][NextCtor]_vars

----------------------------------------------------------------------------
(* Vocabulary of the properties *)

IsEncoder == layer.kind = "TransformerLayer"
IsDecoder == layer.kind = "TransformerDecoderLayer"
IsPost == layer.layernorm_positioning = "post"
BiasEnabled == args.relative_position_embedding
Returned == pc = "returned"

\* the expression (a + b)
Sum(a, b) == <<"(">> \o a \o <<"+">> \o b \o <<")">>

\* the names of the invocations of the running call that are in S, in order
Called(S) ==
    LET sel == SelectSeq(log, LAMBDA e : e.fn \in S)
    IN [i \in 1..Len(sel) |-> sel[i].fn]

\* the arguments of the invocations of f, in order
ArgsOf(f) ==
    LET sel == SelectSeq(log, LAMBDA e : e.fn = f)
    IN [i \in 1..Len(sel) |-> sel[i].args]

AttnNames == {"self_attn", "context_attn"}
NormNames == {"layer_norm_1", "layer_norm_2", "layer_norm_3"}
SubBlocks == {"self_attn", "context_attn", "feed_forward"}

\* the inputs of the running call, as expressions
InHidden == snap[1].term
InMask == snap[2].term
InEncoderHidden == snap[2].term
InMaskDecoder == snap[3].term
InMaskEncoder == snap[4].term

SelfBias == IF BiasEnabled THEN App("relative_pos_emb", <<InHidden, InHidden>>) ELSE <<"None">>
ContextBias ==
    IF BiasEnabled THEN App("relative_pos_emb", <<InHidden, InEncoderHidden>>) ELSE <<"None">>

----------------------------------------------------------------------------
C1_PostOutput ==
    LET n1 == App("layer_norm_1",
                  <<Sum(App("dropout_1",
                            <<App("self_attn",
                                  <<InHidden, InHidden, InHidden, InMask, SelfBias>>)>>),
                        InHidden)>>)
    IN App("layer_norm_2", <<Sum(App("dropout_2", <<App("feed_forward", <<n1>>)>>), n1)>>)

C1_PreOutput ==
    LET n0 == App("layer_norm_1", <<InHidden>>)
        h1 == Sum(InHidden, App("dropout_1", <<App("self_attn", <<n0, n0, n0, InMask>>)>>))
    IN Sum(App("dropout_2", <<App("feed_forward", <<App("layer_norm_2", <<h1>>)>>)>>), h1)

(* C1: TransformerLayer.forward returns, over uninterpreted sub-modules,     *)
(* LayerNorm2(Dropout2(FeedForward(n1)) + n1) with                          *)
(* n1 = LayerNorm1(Dropout1(SelfAttn(hidden, hidden, hidden, mask, bias))   *)
(* + hidden) when layernorm_positioning is "post", and for every other      *)
(* value Dropout2(FeedForward(LayerNorm2(h1))) + h1 with                    *)
(* h1 = hidden + Dropout1(SelfAttn(n0, n0, n0, mask)), n0 = LayerNorm1(     *)
(* hidden); self-attention, feed-forward and the two layer norms are each   *)
(* invoked exactly once, in the order of the formula.                       *)
C1_EncoderForward ==
    (Returned /\ IsEncoder) =>
        LET four == {"self_attn", "feed_forward", "layer_norm_1", "layer_norm_2"}
        IN IF IsPost
           THEN /\ result.term = C1_PostOutput
                /\ Called(four) = <<"self_attn", "layer_norm_1", "feed_forward", "layer_norm_2">>
           ELSE /\ result.term = C1_PreOutput
                /\ Called(four) = <<"layer_norm_1", "self_attn", "layer_norm_2", "feed_forward">>

C1_Witness ==
    /\ Returned /\ IsEncoder /\ BiasEnabled
    /\ layer.layernorm_positioning = "none"
    /\ Len(log) = 9

----------------------------------------------------------------------------
C2_PostOutput ==
    LET q == App("layer_norm_1",
                 <<Sum(App("dropout_1",
                           <<App("self_attn",
                                 <<InHidden, InHidden, InHidden, InMaskDecoder, SelfBias>>)>>),
                       InHidden)>>)
        m == App("layer_norm_2",
                 <<Sum(App("dropout_2",
                           <<App("context_attn",
                                 <<InEncoderHidden, InEncoderHidden, q, InMaskEncoder,
                                   ContextBias>>)>>),
                       q)>>)
    IN App("layer_norm_3", <<Sum(App("dropout_3", <<App("feed_forward", <<m>>)>>), m)>>)

C2_PreOutput ==
    LET hn == App("layer_norm_1", <<InHidden>>)
        q == Sum(App("dropout_1", <<App("self_attn", <<hn, hn, hn, InMaskDecoder>>)>>),
                 InHidden)
        m == Sum(App("dropout_2",
                     <<App("context_attn",
                           <<InEncoderHidden, InEncoderHidden, App("layer_norm_2", <<q>>),
                             InMaskEncoder>>)>>),
                 q)
    IN Sum(App("dropout_3", <<App("feed_forward", <<App("layer_norm_3", <<m>>)>>)>>), m)

\* the query state the cross-attention call is due: the last layer_norm_1
\* (post) or layer_norm_2 (otherwise) result before it
C2_QueryState ==
    LET n == IF IsPost THEN "layer_norm_1" ELSE "layer_norm_2"
        sel == SelectSeq(log, LAMBDA e : e.fn = n)
    IN sel[1].res.term

(* C2: TransformerDecoderLayer.forward returns, over uninterpreted          *)
(* sub-modules, LayerNorm3(Dropout3(FeedForward(m)) + m) with               *)
(* m = LayerNorm2(Dropout2(ContextAttn(encoder_hidden, encoder_hidden, q,   *)
(* mask_encoder, context_bias)) + q), q = LayerNorm1(Dropout1(SelfAttn(     *)
(* hidden, hidden, hidden, mask_decoder, self_bias)) + hidden) when         *)
(* layernorm_positioning is "post", and for every other value               *)
(* Dropout3(FeedForward(LayerNorm3(m'))) + m' with m' = Dropout2(           *)
(* ContextAttn(encoder_hidden, encoder_hidden, LayerNorm2(q'),              *)
(* mask_encoder)) + q', q' = Dropout1(SelfAttn(hn, hn, hn, mask_decoder))   *)
(* + hidden, hn = LayerNorm1(hidden); the cross-attention call gets         *)
(* encoder_hidden first and second and the query state third.               *)
C2_DecoderForward ==
    (Returned /\ IsDecoder) =>
        /\ result.term = IF IsPost THEN C2_PostOutput ELSE C2_PreOutput
        /\ Len(ArgsOf("context_attn")) = 1
        /\ LET a == ArgsOf("context_attn")[1]
           IN /\ a[1] = InEncoderHidden
              /\ a[2] = InEncoderHidden
              /\ a[3] = C2_QueryState
              /\ a[3] # InEncoderHidden

C2_Witness ==
    /\ Returned /\ IsDecoder /\ BiasEnabled /\ ~IsPost
    /\ snap[2].shape # snap[1].shape
    /\ Len(ArgsOf("context_attn")) = 1

----------------------------------------------------------------------------
C3_Expected ==
    IF ~BiasEnabled THEN <<>>
    ELSE IF IsEncoder THEN <<(<<InHidden, InHidden>>)>>
    ELSE <<(<<InHidden, InHidden>>), (<<InHidden, InEncoderHidden>>)>>

(* C3: a layer built with relative_position_embedding disabled never        *)
(* invokes the relative-position module; a layer built with it enabled      *)
(* invokes it, in every forward call of either variant, exactly once with   *)
(* (hidden, hidden) and, in the decoder, exactly once more with (hidden,    *)
(* encoder_hidden), on the call's own inputs and before any attention call. *)
C3_BiasGating ==
    pc # "ready" =>
        LET got == ArgsOf("relative_pos_emb")
        IN /\ Len(got) <= Len(C3_Expected)
           /\ \A i \in 1..Len(got) : got[i] = C3_Expected[i]
           /\ (Returned \/ \E i \in 1..Len(log) : log[i].fn \in AttnNames) =>
                 /\ got = C3_Expected
                 /\ \A i, j \in 1..Len(log) :
                       (log[i].fn = "relative_pos_emb" /\ log[j].fn \in AttnNames) => i < j
                 /\ \A i \in 1..Len(log) : log[i].fn = "relative_pos_emb" => log[i].ok

C3_Witness ==
    /\ Returned /\ IsDecoder /\ BiasEnabled /\ ~IsPost
    /\ Len(ArgsOf("relative_pos_emb")) = 2
    /\ first.done /\ first.others

----------------------------------------------------------------------------
(* C4: when layernorm_positioning is not "post", no attention call of       *)
(* either layer is given a position_bias argument, even when the bias was   *)
(* computed; when it is "post", the self-attention call is given the self   *)
(* bias and the decoder's cross-attention call the context bias (None when  *)
(* the feature is disabled).                                                *)

C4_BiasPassing ==
    \A i \in 1..Len(log) :
        log[i].fn \in AttnNames =>
            IF IsPost
            THEN /\ Len(log[i].args) = 5
                 /\ log[i].args[5] = IF log[i].fn = "self_attn" THEN SelfBias ELSE ContextBias
            ELSE Len(log[i].args) = 4

C4_Witness ==
    /\ Returned /\ BiasEnabled /\ ~IsPost /\ IsEncoder
    /\ locals = EmptyFrame
    /\ Len(ArgsOf("relative_pos_emb")) = 1
    /\ Len(ArgsOf("self_attn")) = 1

----------------------------------------------------------------------------
(* C5: with collaborators that keep their interface contracts, forward of   *)
(* either layer returns a tensor of hidden's shape (B,T,H), for the decoder *)
(* whatever the sequence length of encoder_hidden, in both variants, and    *)
(* every residual addition inside forward adds two values of shape (B,T,H). *)

C5_ShapePreserved ==
    /\ Returned => result.shape = snap[1].shape
    /\ \A i \in 1..Len(log) :
          log[i].fn = "add" =>
              /\ log[i].shapes[1] = snap[1].shape
              /\ log[i].shapes[2] = snap[1].shape
              /\ log[i].ok

C5_Witness ==
    /\ Returned /\ IsDecoder /\ IsPost
    /\ snap[2].shape[2] # snap[1].shape[2]
    /\ Len(Called({"add"})) = 3

----------------------------------------------------------------------------
C6_SameOutput ==
    (Returned /\ first.done /\ first.inputs = snap) => result = first.output

C6_InputsKept == pc # "ready" => caller = snap

C6_FreshFrame ==
    (pc \in Idle /\ pc' \notin Idle) =>
        \A n \in DOMAIN EmptyFrame :
            locals'[n] # Unbound => \E i \in 1..Len(snap') : locals'[n] = snap'[i]

(* C6: with dropout disabled and deterministic sub-modules, a forward call  *)
(* returns the same output for the same inputs after any earlier calls;     *)
(* forward leaves the layer's configuration and sub-modules and the         *)
(* caller's input tensors unchanged, and starts from no value of an earlier *)
(* call.                                                                    *)
C6_Stateless ==
    /\ [](C6_SameOutput /\ C6_InputsKept)
    /\ [][layer' = layer /\ args' = args /\ C6_FreshFrame]_vars

C6_Witness ==
    /\ Returned /\ first.done /\ first.others /\ first.inputs = snap
    /\ ~IsPost /\ BiasEnabled

----------------------------------------------------------------------------
(* C7: when a sub-component invoked by forward fails, forward fails with    *)
(* that failure, invokes nothing that comes later, returns no output, and   *)
(* neither traps the failure nor retries.                                   *)

C7_AllOrNothing ==
    /\ \A i \in 1..Len(log) : ~log[i].ok => (i = Len(log) /\ pc = "raised")
    /\ pc = "raised" =>
          /\ Len(log) > 0
          /\ ~log[Len(log)].ok
          /\ exc = log[Len(log)].fn
          /\ result = NoneT
    /\ \A i, j \in 1..Len(log) :
          (i < j /\ log[i].fn = log[j].fn) => log[i].args # log[j].args

C7_Witness ==
    /\ pc = "raised" /\ exc = "feed_forward"
    /\ Len(log) > 3
    /\ result = NoneT

----------------------------------------------------------------------------
(* The data flow of a forward call, read off the invocation log *)

\* sub-block at position i: its dropout follows, then a residual addition
\* of the dropout's result
C8_ResidualAfter(i) ==
    /\ i + 2 <= Len(log)
    /\ log[i + 1].fn \in {"dropout_1", "dropout_2", "dropout_3"}
    /\ log[i + 1].args = <<log[i].res.term>>
    /\ log[i + 2].fn = "add"
    /\ log[i + 1].res.term \in {log[i + 2].args[1], log[i + 2].args[2]}

\* the residual sum of the sub-block at position i is normalized next
C8_NormAfter(i) ==
    /\ i + 3 <= Len(log)
    /\ log[i + 3].fn \in NormNames
    /\ log[i + 3].args = <<log[i + 2].res.term>>

\* the input of the sub-block at position i is the normalization just before it
C8_NormBefore(i) ==
    /\ i > 1
    /\ log[i - 1].fn \in NormNames
    /\ log[i - 1].res.term = log[i].args[IF log[i].fn = "feed_forward" THEN 1 ELSE 3]

C8_PostNormFlow ==
    /\ \A i \in 1..Len(log) :
          log[i].fn \in SubBlocks => (C8_ResidualAfter(i) /\ C8_NormAfter(i))
    /\ \E i \in 1..Len(log) :
          /\ log[i].fn = "feed_forward"
          /\ C8_NormAfter(i)
          /\ result = log[i + 3].res

C8_PreNormFlow ==
    /\ \A i \in 1..Len(log) :
          log[i].fn \in SubBlocks =>
              /\ C8_NormBefore(i)
              /\ C8_ResidualAfter(i)
              /\ ~C8_NormAfter(i) \/ log[i].fn # "feed_forward"
    /\ \E i \in 1..Len(log) :
          /\ log[i].fn = "feed_forward"
          /\ i + 2 = Len(log)
          /\ result = log[i + 2].res

(* C8 as stated: in every forward call of either layer and either variant, *)
(* each sub-block is followed by a residual addition and then by a         *)
(* normalization of that sum, and the output is the normalization that     *)
(* follows the feed-forward sub-block's residual addition.                 *)
C8_Original == Returned => C8_PostNormFlow

(* C8 amended: that data flow is the one of the "post" variant; for every  *)
(* other value of layernorm_positioning each sub-block takes as input the  *)
(* normalization just before it and is followed by a residual addition,    *)
(* and the output is the feed-forward sub-block's residual sum itself,     *)
(* not normalized.                                                         *)
C8_DataFlow ==
    Returned => IF IsPost THEN C8_PostNormFlow ELSE C8_PreNormFlow

C8_Witness ==
    /\ Returned /\ ~IsPost /\ IsDecoder
    /\ Len(Called(SubBlocks)) = 3
    /\ Len(Called(NormNames)) = 3
    /\ log[Len(log)].fn = "add"

----------------------------------------------------------------------------
(* C9: without an attention_head_size attribute in the configuration every *)
(* attention sub-module is built with attention_head_size equal to the     *)
(* floor of hidden_size / heads_num; with the attribute its value is used  *)
(* unchanged; the decoder's two attention sub-modules get the same size.   *)

C9_HeadSize ==
    LET hs == layer.self_attn.attention_head_size
    IN /\ HasAttr(args, "attention_head_size") => hs = args.attention_head_size
       /\ ~HasAttr(args, "attention_head_size") =>
             /\ hs * args.heads_num <= args.hidden_size
             /\ args.hidden_size < (hs + 1) * args.heads_num
       /\ IsDecoder =>
             /\ layer.context_attn.cls = "MultiHeadedAttention"
             /\ layer.context_attn.attention_head_size = hs
       /\ IsEncoder => layer.context_attn = NoModule

C9_Witness ==
    /\ IsDecoder
    /\ ~HasAttr(args, "attention_head_size")
    /\ args.hidden_size % args.heads_num # 0
    /\ layer.self_attn.attention_head_size * args.heads_num < args.hidden_size
    /\ layer.context_attn.attention_head_size = layer.self_attn.attention_head_size

----------------------------------------------------------------------------
C10_Times(n, x) == [k \in 1..Len(x) |-> n * x[k]]

(* C10: with dropout disabled, attention returning its query (third        *)
(* argument) and feed-forward and layer-norm returning their input,        *)
(* TransformerLayer.forward returns 4 x hidden and                         *)
(* TransformerDecoderLayer.forward 8 x hidden, element-wise, for every     *)
(* hidden, encoder_hidden and mask, in both variants, with or without      *)
(* relative position bias.                                                 *)
C10_IdentityStubs ==
    Returned =>
        /\ result.shape = snap[1].shape
        /\ result.val = C10_Times(IF IsEncoder THEN 4 ELSE 8, snap[1].val)

C10_Witness ==
    /\ Returned /\ IsDecoder /\ ~IsPost /\ BiasEnabled
    /\ snap[2].shape[2] # snap[1].shape[2]
    /\ result.val[1] = 8 * snap[1].val[1]
    /\ result.val[1] > 8

====
